---- MODULE Spec2Model ----
(***************************************************************************)
(* Stroke generation of img_to_swipes (src/src/geometry.py, image.py):     *)
(* Point.neighbors, Polygon.split, find_contours, find_path and the        *)
(* _PolygonGenerator state machine, with Image.from_pixels as entry point. *)
(* A point is a pair <<x, y>>; a polygon is a sequence of points.          *)
(***************************************************************************)
EXTENDS Integers, Sequences, FiniteSets, TLC

\* ---------------------------------------------------------------- bounds
\* Pixel coordinates range over 0..MaxX by 0..MaxY (image pixels are
\* produced by Image.from_pil_image with x, y >= 0).
MaxX == 2
MaxY == 1
\* Largest number of distinct input points.
MaxPoints == 4
\* Largest polygon_length (max_stroke_length) tried.
MaxLen == 5
\* Largest membership set of a find_path call made on its own.
MaxPathPoints == 3
\* find_contours called on its own: coordinates from -MaxNeg on, sets of at
\* most MaxContourPoints points.
MaxNeg == 2
MaxContourPoints == 2
\* The generator on inputs of up to MaxWidePoints points with lengths up to
\* MaxWideLen (WideSpec).
MaxWidePoints == 5
MaxWideLen == 6

Grid == (0..MaxX) \X (0..MaxY)
\* polygon_length: the invalid values -1 and 0, and 1..MaxLen.
Lengths == (-1)..MaxLen
InputSets == {S \in SUBSET Grid : Cardinality(S) <= MaxPoints}

\* ------------------------------------------------------------ primitives
Min(S) == CHOOSE m \in S : \A n \in S : m <= n
Max(S) == CHOOSE m \in S : \A n \in S : n <= m

Last(s) == s[Len(s)]
Reverse(s) == [i \in 1..Len(s) |-> s[Len(s) + 1 - i]]
Range(s) == {s[i] : i \in 1..Len(s)}
\* islice(s, 1, None)
Rest(s) == SubSeq(s, 2, Len(s))

\* The element of a one-element set; { F(v) : v \in {e} } computes e once.
TheOne(single) == CHOOSE v \in single : TRUE

\* Variant: the first neighbour two columns to the left.
NeighborsWide(p) ==
    << <<p[1] - 2, p[2]>>, <<p[1] + 1, p[2]>>,
       <<p[1], p[2] - 1>>, <<p[1], p[2] + 1>>,
       <<p[1] - 1, p[2] - 1>>, <<p[1] - 1, p[2] + 1>>,
       <<p[1] + 1, p[2] - 1>>, <<p[1] + 1, p[2] + 1>> >>

\* Variant: the four diagonal neighbours before the four orthogonal ones.
NeighborsDiagonalFirst(p) ==
    << <<p[1] - 1, p[2] - 1>>, <<p[1] - 1, p[2] + 1>>,
       <<p[1] + 1, p[2] - 1>>, <<p[1] + 1, p[2] + 1>>,
       <<p[1] - 1, p[2]>>, <<p[1] + 1, p[2]>>,
       <<p[1], p[2] - 1>>, <<p[1], p[2] + 1>> >>

\* Point.neighbors: left, right, up, down, then the four diagonals.
Neighbors(p) ==
    << <<p[1] - 1, p[2]>>, <<p[1] + 1, p[2]>>,
       <<p[1], p[2] - 1>>, <<p[1], p[2] + 1>>,
       <<p[1] - 1, p[2] - 1>>, <<p[1] - 1, p[2] + 1>>,
       <<p[1] + 1, p[2] - 1>>, <<p[1] + 1, p[2] + 1>> >>

\* Variant: the last slice filled up to max_length with its last point.
SplitPadded(pts, max_length) ==
    [k \in 1..((Len(pts) + max_length - 1) \div max_length) |->
        IF k * max_length <= Len(pts)
        THEN SubSeq(pts, (k - 1) * max_length + 1, k * max_length)
        ELSE SubSeq(pts, (k - 1) * max_length + 1, Len(pts))
             \o [i \in 1..(k * max_length - Len(pts)) |-> pts[Len(pts)]]]

\* Polygon.split for max_length >= 1: consecutive slices points[i:i+max_length].
\* (max_length <= 0 raises ValueError; the callers below test it first.)
Split(pts, max_length) ==
    [k \in 1..((Len(pts) + max_length - 1) \div max_length) |->
        SubSeq(pts, (k - 1) * max_length + 1,
               IF k * max_length <= Len(pts) THEN k * max_length ELSE Len(pts))]

\* --------------------------------------------------------- find_contours
\* cv2.findContours(mask, RETR_LIST, CHAIN_APPROX_NONE): raster scan with
\* border following on the 8-connected mask.  Pixel values: 0 background,
\* 1 foreground, 2 followed, -1 followed with background to the right.
\* The eight direction codes 0..7 run E, NE, N, NW, W, SW, S, SE.
Delta(s) ==
    CASE s = 0 -> <<1, 0>>   [] s = 1 -> <<1, -1>> [] s = 2 -> <<0, -1>>
      [] s = 3 -> <<-1, -1>> [] s = 4 -> <<-1, 0>> [] s = 5 -> <<-1, 1>>
      [] s = 6 -> <<0, 1>>   [] s = 7 -> <<1, 1>>

Step(p, s) == <<p[1] + Delta(s)[1], p[2] + Delta(s)[2]>>

\* mask[point.y, point.x] = 255 for every point; everything else is 0.
PixelValue(mask, marks, p) ==
    IF p \notin mask THEN 0
    ELSE IF p \in marks.right THEN -1
    ELSE IF p \in marks.two THEN 2
    ELSE 1

\* First neighbour met turning clockwise from direction s0 (s0 itself last).
FirstDir(mask, p, s0) ==
    LET cand == {k \in 1..8 : k = 8 \/ Step(p, (s0 + 8 - k) % 8) \in mask}
    IN (s0 + 8 - Min(cand)) % 8

\* One step of border following at pixel i3, reached from direction s: the
\* next neighbour i4 is sought counter-clockwise from s, i3 is marked (-1
\* when the search passed a background pixel to the east) and written.
FollowStep(mask, i3, s, loop, marks) ==
    LET k == Min({j \in 1..8 : Step(i3, (s + j) % 8) \in mask})
        raw == s + k
        sNew == raw % 8
    IN [i4 |-> Step(i3, sNew),
        s |-> (sNew + 4) % 8,
        loop |-> Append(loop, i3),
        marks |-> IF raw >= 9
                  THEN [marks EXCEPT !.right = @ \cup {i3}]
                  ELSE [marks EXCEPT !.two = @ \cup {i3}]]

\* Border following from i3 having arrived from direction s; i0 is the start
\* pixel and i1 its first neighbour.  It ends on stepping from i1 to i0.
RECURSIVE Follow(_, _, _, _, _, _, _)
Follow(mask, i0, i1, i3, s, loop, marks) ==
    TheOne({ IF st.i4 = i0 /\ i3 = i1
             THEN [loop |-> st.loop, marks |-> st.marks]
             ELSE Follow(mask, i0, i1, st.i4, st.s, st.loop, st.marks)
             : st \in {FollowStep(mask, i3, s, loop, marks)} })

\* One border, started at pixel i0: an outer border looks first to the west,
\* a hole border to the east.
FetchContour(mask, i0, is_hole, marks) ==
    LET s_end == IF is_hole THEN 0 ELSE 4
        s == FirstDir(mask, i0, s_end)
    IN IF s = s_end
       THEN [loop |-> <<i0>>, marks |-> [marks EXCEPT !.right = @ \cup {i0}]]
       ELSE Follow(mask, i0, Step(i0, s), i0, s, <<>>, marks)

\* The scan at pixel <<x, y>>: a border starts where the value changes from 0
\* to 1 (outer) or from >= 1 to 0 (hole, started at the pixel on the left).
\* A new contour goes to the front of the result list.
ScanPixel(mask, x, y, marks, found) ==
    LET p == PixelValue(mask, marks, <<x, y>>)
        prev == IF x = 0 THEN 0 ELSE PixelValue(mask, marks, <<x - 1, y>>)
    IN IF prev = 0 /\ p = 1
       THEN TheOne({ [marks |-> c.marks, found |-> <<c.loop>> \o found]
                     : c \in {FetchContour(mask, <<x, y>>, FALSE, marks)} })
       ELSE IF p = 0 /\ prev >= 1
       THEN TheOne({ [marks |-> c.marks, found |-> <<c.loop>> \o found]
                     : c \in {FetchContour(mask, <<x - 1, y>>, TRUE, marks)} })
       ELSE [marks |-> marks, found |-> found]

\* Raster scan of the width x height mask, pixel k = y * width + x.
RECURSIVE ScanContours(_, _, _, _, _, _)
ScanContours(mask, width, height, k, marks, found) ==
    IF k >= width * height THEN found
    ELSE TheOne({ ScanContours(mask, width, height, k + 1, st.marks, st.found)
                  : st \in {ScanPixel(mask, k % width, k \div width, marks, found)} })

\* mask[point.y, point.x] = 255 on a numpy array: an index i of an axis of
\* the given size addresses i when 0 <= i < size and size + i when
\* -size <= i < 0; any other index raises IndexError (NoIndex here).
NoIndex == -1
MaskIndex(i, size) ==
    IF 0 <= i /\ i < size THEN i
    ELSE IF 0 - size <= i /\ i < 0 THEN size + i
    ELSE NoIndex

\* The cell of the mask written for a point.
MaskCell(p, width, height) == <<MaskIndex(p[1], width), MaskIndex(p[2], height)>>

\* width and height of the mask of a non-empty set.
MaskWidth(unique_points) == Max({p[1] : p \in unique_points}) + 1
MaskHeight(unique_points) == Max({p[2] : p \in unique_points}) + 1

\* find_contours(points) with how it ends: nothing for the empty set;
\* numpy.zeros raises ValueError on a negative dimension; a write outside
\* the mask raises IndexError; otherwise the loops of the mask, in the
\* coordinates of the mask.
FindContoursOutcome(unique_points) ==
    IF unique_points = {} THEN [kind |-> "loops", loops |-> <<>>]
    ELSE LET width == MaskWidth(unique_points)
             height == MaskHeight(unique_points)
             mask == {MaskCell(p, width, height) : p \in unique_points}
         IN IF width < 0 \/ height < 0
            THEN [kind |-> "ValueError", loops |-> <<>>]
            ELSE IF \E c \in mask : c[1] = NoIndex \/ c[2] = NoIndex
            THEN [kind |-> "IndexError", loops |-> <<>>]
            ELSE [kind |-> "loops",
                  loops |-> ScanContours(mask, width, height, 0,
                                         [two |-> {}, right |-> {}], <<>>)]

\* find_contours(points) on pixel sets (coordinates >= 0, where every point
\* is its own mask cell and nothing raises): the loops.
FindContours(unique_points) == FindContoursOutcome(unique_points).loops

\* ------------------------------------------------------------- find_path
\* The predicate is given as the set pred of the points that satisfy it.
\* The result records how the call ended (kind "ValueError",
\* "AssertionError", "none" or "path"), the path returned, and every path
\* taken from the queue (popped) or appended to it (queued).
PathResult(kind, path, popped, queued) ==
    [kind |-> kind, path |-> path, popped |-> popped, queued |-> queued]

\* The search state st holds queue and visited of find_path, and the record
\* kept of it: popped, queued.
\* while queue: ... / for neighbor in last_point.neighbors: ... (from the
\* i-th neighbour on).
RECURSIVE WhileQueue(_, _, _, _)
RECURSIVE ForNeighbors(_, _, _, _, _, _)

\* Variant: queue.pop() in place of queue.pop(0), the path queued last
\* expanded first.
WhileQueueLifo(st, pts, max_length, pred) ==
    IF st.queue = <<>>
    THEN PathResult("none", <<>>, st.popped, st.queued)
    ELSE LET current_path == Last(st.queue)
         IN IF ~(Len(current_path) < max_length)
            THEN PathResult("AssertionError", <<>>,
                            Append(st.popped, current_path), st.queued)
            ELSE TheOne({ ForNeighbors(1, current_path, nx, pts, max_length, pred)
                          : nx \in {[st EXCEPT !.queue = SubSeq(@, 1, Len(@) - 1),
                                               !.popped = Append(@, current_path)]} })

WhileQueue(st, pts, max_length, pred) ==
    IF st.queue = <<>>
    THEN PathResult("none", <<>>, st.popped, st.queued)
    ELSE LET current_path == Head(st.queue)
         IN IF ~(Len(current_path) < max_length)
            THEN PathResult("AssertionError", <<>>,
                            Append(st.popped, current_path), st.queued)
            ELSE TheOne({ ForNeighbors(1, current_path, nx, pts, max_length, pred)
                          : nx \in {[st EXCEPT !.queue = Tail(@),
                                               !.popped = Append(@, current_path)]} })

\* Variant: the test len(current_path) == max_length - 1 left out.
ForNeighborsNoBudget(i, current_path, st, pts, max_length, pred) ==
    IF i > 8
    THEN WhileQueue(st, pts, max_length, pred)
    ELSE LET neighbor == Neighbors(Last(current_path))[i]
             new_path == Append(current_path, neighbor)
         IN IF neighbor \notin pts \/ neighbor \in st.visited
            THEN ForNeighbors(i + 1, current_path, st, pts, max_length, pred)
            ELSE IF neighbor \in pred
            THEN PathResult("path", new_path, st.popped, st.queued)
            ELSE TheOne({ ForNeighbors(i + 1, current_path, nx, pts, max_length, pred)
                          : nx \in {[st EXCEPT !.queue = Append(@, new_path),
                                               !.visited = @ \cup {neighbor},
                                               !.queued = Append(@, new_path)]} })

ForNeighbors(i, current_path, st, pts, max_length, pred) ==
    IF i > 8
    THEN WhileQueue(st, pts, max_length, pred)
    ELSE LET neighbor == Neighbors(Last(current_path))[i]
             new_path == Append(current_path, neighbor)
         IN IF neighbor \notin pts \/ neighbor \in st.visited
            THEN ForNeighbors(i + 1, current_path, st, pts, max_length, pred)
            ELSE IF neighbor \in pred
            THEN PathResult("path", new_path, st.popped, st.queued)
            ELSE IF Len(current_path) = max_length - 1
            THEN ForNeighbors(i + 1, current_path, st, pts, max_length, pred)
            ELSE TheOne({ ForNeighbors(i + 1, current_path, nx, pts, max_length, pred)
                          : nx \in {[st EXCEPT !.queue = Append(@, new_path),
                                               !.visited = @ \cup {neighbor},
                                               !.queued = Append(@, new_path)]} })

FindPath(start, pts, max_length, pred) ==
    IF max_length <= 0 THEN PathResult("ValueError", <<>>, <<>>, <<>>)
    ELSE IF max_length = 1
    THEN IF start \in pred
         THEN PathResult("path", <<start>>, <<>>, <<>>)
         ELSE PathResult("none", <<>>, <<>>, <<>>)
    ELSE WhileQueue([queue |-> << <<start>> >>, visited |-> {},
                     popped |-> <<>>, queued |-> << <<start>> >>],
                    pts, max_length, pred)

\* What the caller sees of a find_path call.
CallRecord(start, max_length, r) ==
    [start |-> start, max_length |-> max_length, kind |-> r.kind,
     path |-> r.path, popped |-> r.popped]

\* ------------------------------------------------------ _PolygonGenerator
VARIABLES
    entry,               \* the entry point running: "from_pixels",
                         \* "points_to_polygons", "find_path" or
                         \* "find_contours"
    points,              \* self._points, the input set
    polygon_length,      \* self._polygon_length (max_stroke_length)
    unvisited_points,    \* self._unvisited_points
    unvisited_contours,  \* self._unvisited_contours: [is_none, items]
    pc,                  \* "entry", "ready" (between pulls), "path" and
                         \* "greedy" (inside _next_random_polygon), "done"
                         \* (StopIteration), "raised", "call", "returned"
    stroke,              \* the list points of _next_random_polygon
    visit_count,         \* the Counter visit_count of _next_random_polygon
    emitted,             \* the strokes returned so far, with their source
    call_args,           \* the arguments of a direct find_path call
    calls,               \* the find_path calls of the last step
    contours_of          \* find_contours (a pure function) on the sets the
                         \* extractions pass to it

vars == <<entry, points, polygon_length, unvisited_points, unvisited_contours,
          pc, stroke, visit_count, emitted, call_args, calls, contours_of>>

NoPoint == <<>>
NoCount == <<>>
NoArgs == [start |-> NoPoint, max_length |-> 0, pred |-> {}]

\* Counter.update(seq) and visit_count[p] += 1; a missing key counts 0.
CountOf(vc, p) == IF p \in DOMAIN vc THEN vc[p] ELSE 0
Occurrences(seq, p) == Cardinality({i \in 1..Len(seq) : seq[i] = p})
CounterUpdate(vc, seq) ==
    [p \in (DOMAIN vc) \cup Range(seq) |-> CountOf(vc, p) + Occurrences(seq, p)]

\* Variant: the test point in self._unvisited_points left out.
IsUnusedInStroke == points \ DOMAIN visit_count

\* is_unvisited of _next_random_polygon, as the set of points satisfying it.
IsUnvisited == unvisited_points \ DOMAIN visit_count

\* _find_least_visited_neighbor: the loop over point.neighbors from the i-th
\* neighbour on.
RECURSIVE LeastVisitedFrom(_, _, _, _, _, _)
\* Variant: the test "neighbor not in all_points" left out.
LeastVisitedAnyPoint(i, point, vc, all_points, least_visited_neighbor, min_visit_count) ==
    IF i > 8 THEN least_visited_neighbor
    ELSE LET neighbor == Neighbors(point)[i]
         IN IF neighbor \in unvisited_points /\ neighbor \notin DOMAIN vc
            THEN neighbor
            ELSE IF CountOf(vc, neighbor) < min_visit_count
            THEN LeastVisitedFrom(i + 1, point, vc, all_points, neighbor,
                                  CountOf(vc, neighbor))
            ELSE LeastVisitedFrom(i + 1, point, vc, all_points,
                                  least_visited_neighbor, min_visit_count)

\* Variant: "<=" in place of "<", the last of the least visited neighbours
\* kept.
LeastVisitedLatest(i, point, vc, all_points, least_visited_neighbor, min_visit_count) ==
    IF i > 8 THEN least_visited_neighbor
    ELSE LET neighbor == Neighbors(point)[i]
         IN IF neighbor \notin all_points
            THEN LeastVisitedFrom(i + 1, point, vc, all_points,
                                  least_visited_neighbor, min_visit_count)
            ELSE IF neighbor \in unvisited_points /\ neighbor \notin DOMAIN vc
            THEN neighbor
            ELSE IF CountOf(vc, neighbor) <= min_visit_count
            THEN LeastVisitedFrom(i + 1, point, vc, all_points, neighbor,
                                  CountOf(vc, neighbor))
            ELSE LeastVisitedFrom(i + 1, point, vc, all_points,
                                  least_visited_neighbor, min_visit_count)

LeastVisitedFrom(i, point, vc, all_points, least_visited_neighbor, min_visit_count) ==
    IF i > 8 THEN least_visited_neighbor
    ELSE LET neighbor == Neighbors(point)[i]
         IN IF neighbor \notin all_points
            THEN LeastVisitedFrom(i + 1, point, vc, all_points,
                                  least_visited_neighbor, min_visit_count)
            ELSE IF neighbor \in unvisited_points /\ neighbor \notin DOMAIN vc
            THEN neighbor
            ELSE IF CountOf(vc, neighbor) < min_visit_count
            THEN LeastVisitedFrom(i + 1, point, vc, all_points, neighbor,
                                  CountOf(vc, neighbor))
            ELSE LeastVisitedFrom(i + 1, point, vc, all_points,
                                  least_visited_neighbor, min_visit_count)

FindLeastVisitedNeighbor(point, vc, all_points) ==
    LeastVisitedFrom(1, point, vc, all_points, NoPoint,
                     Max({vc[p] : p \in DOMAIN vc}) + 1)

\* find_contours(self._unvisited_points).  find_contours is a pure function
\* of the set, and the set an extraction passes to it is known as soon as the
\* pending chunks run out: contours_of holds its value for that set from then
\* on (NextContours), beside the values for the sets of the extractions
\* before, and the extraction reads it (Contours).
Contours(unique_points) == contours_of[unique_points]

\* Variant: the contours taken from the whole input each time.
NextContoursOfInput(unvisited) == [S \in {unvisited} |-> FindContours(points)]

\* The value find_contours has for the set the next extraction passes.
NextContours(unvisited) == [S \in {unvisited} |-> FindContours(S)]

\* The chunks _next_contour appends: for each contour, the slices of split
\* whose length is polygon_length.
RECURSIVE ExactChunks(_, _)
\* Variant: the test len(short_contour.points) == polygon_length left out.
AllChunks(contours, length) ==
    IF contours = <<>> THEN <<>>
    ELSE Split(Head(contours), length)
         \o TheOne({ ExactChunks(rest, length) : rest \in {Tail(contours)} })

ExactChunks(contours, length) ==
    IF contours = <<>> THEN <<>>
    ELSE SelectSeq(Split(Head(contours), length), LAMBDA c : Len(c) = length)
         \o TheOne({ ExactChunks(rest, length) : rest \in {Tail(contours)} })

\* Variant: unvisited_points recomputed from the input set.
ReturnFromAll(polygon, source) ==
    /\ emitted' = Append(emitted, [points |-> polygon, source |-> source])
    /\ unvisited_points' = points \ Range(polygon)

\* Variant: the first point of the polygon kept in unvisited_points.
ReturnAfterSeed(polygon, source) ==
    /\ emitted' = Append(emitted, [points |-> polygon, source |-> source])
    /\ unvisited_points' = unvisited_points \ Range(Rest(polygon))

\* __next__: polygon returned, its points leave unvisited_points.
Return(polygon, source) ==
    /\ emitted' = Append(emitted, [points |-> polygon, source |-> source])
    /\ unvisited_points' = unvisited_points \ Range(polygon)

Init ==
    /\ entry \in {"from_pixels", "points_to_polygons"}
    /\ points \in InputSets
    /\ polygon_length \in Lengths
    /\ unvisited_points = points
    /\ unvisited_contours = [is_none |-> FALSE, items |-> <<>>]
    /\ pc = IF entry = "from_pixels" THEN "entry" ELSE "ready"
    /\ stroke = <<>>
    /\ visit_count = NoCount
    /\ emitted = <<>>
    /\ call_args = NoArgs
    /\ calls = <<>>
    /\ contours_of = NextContours(points)

\* Image.from_pixels: at most one distinct pixel gives one stroke holding
\* list(unique_pixels); otherwise it hands over to points_to_polygons.
FromPixels ==
    /\ pc = "entry"
    /\ IF Cardinality(points) <= 1
       THEN /\ emitted' = << [points |-> IF points = {} THEN <<>>
                                         ELSE <<CHOOSE p \in points : TRUE>>,
                              source |-> "pixels"] >>
            /\ pc' = "done"
            /\ UNCHANGED entry
       ELSE /\ pc' = "ready"
            /\ entry' = "points_to_polygons"
            /\ UNCHANGED emitted
    /\ UNCHANGED <<contours_of, call_args, points, polygon_length, unvisited_points,
                   unvisited_contours, stroke, visit_count, calls>>

\* Variant: StopIteration only once the contours have been given up.
StopAfterContours ==
    /\ pc = "ready"
    /\ unvisited_points = {}
    /\ unvisited_contours.is_none
    /\ pc' = "done"
    /\ calls' = <<>>
    /\ UNCHANGED <<contours_of, call_args, entry, points, polygon_length, unvisited_points,
                   unvisited_contours, stroke, visit_count, emitted>>

\* __next__ with nothing left: StopIteration.
Stop ==
    /\ pc = "ready"
    /\ unvisited_points = {}
    /\ pc' = "done"
    /\ calls' = <<>>
    /\ UNCHANGED <<contours_of, call_args, entry, points, polygon_length, unvisited_points,
                   unvisited_contours, stroke, visit_count, emitted>>

\* Variant: any of the pending chunks taken.
EmitPendingAny ==
    /\ pc = "ready"
    /\ unvisited_points # {}
    /\ ~unvisited_contours.is_none
    /\ unvisited_contours.items # <<>>
    /\ LET items == unvisited_contours.items
       IN \E k \in 1..Len(items) :
          /\ Return(items[k], "contour")
          /\ unvisited_contours' =
                 [unvisited_contours EXCEPT
                      !.items = SubSeq(items, 1, k - 1) \o SubSeq(items, k + 1, Len(items))]
          /\ contours_of' = IF Len(items) = 1
                            THEN NextContours(unvisited_points') @@ contours_of
                            ELSE contours_of
    /\ calls' = <<>>
    /\ UNCHANGED <<call_args, entry, points, polygon_length, pc, stroke, visit_count>>

\* _next_contour with chunks pending: pop() takes the last one.
EmitPending ==
    /\ pc = "ready"
    /\ unvisited_points # {}
    /\ ~unvisited_contours.is_none
    /\ unvisited_contours.items # <<>>
    /\ LET items == unvisited_contours.items
       IN /\ Return(Last(items), "contour")
          /\ unvisited_contours' =
                 [unvisited_contours EXCEPT !.items = SubSeq(items, 1, Len(items) - 1)]
          /\ contours_of' = IF Len(items) = 1
                            THEN NextContours(unvisited_points') @@ contours_of
                            ELSE contours_of
    /\ calls' = <<>>
    /\ UNCHANGED <<call_args, entry, points, polygon_length, pc, stroke, visit_count>>

\* _next_contour with nothing pending and polygon_length <= 0: the first
\* contour.split raises ValueError.
ExtractRaise ==
    /\ pc = "ready"
    /\ unvisited_points # {}
    /\ ~unvisited_contours.is_none
    /\ unvisited_contours.items = <<>>
    /\ Contours(unvisited_points) # <<>>
    /\ polygon_length <= 0
    /\ pc' = "raised"
    /\ calls' = <<>>
    /\ UNCHANGED <<contours_of, call_args, entry, points, polygon_length, unvisited_points,
                   unvisited_contours, stroke, visit_count, emitted>>

\* _next_contour with nothing pending: the contours of unvisited_points are
\* split, the exact chunks appended, and the last one popped.
ExtractAndEmit ==
    /\ pc = "ready"
    /\ unvisited_points # {}
    /\ ~unvisited_contours.is_none
    /\ unvisited_contours.items = <<>>
    /\ polygon_length > 0
    /\ \E items \in {ExactChunks(Contours(unvisited_points), polygon_length)} :
          /\ items # <<>>
          /\ Return(Last(items), "contour")
          /\ unvisited_contours' =
                 [unvisited_contours EXCEPT !.items = SubSeq(items, 1, Len(items) - 1)]
          /\ contours_of' = IF Len(items) = 1
                            THEN NextContours(unvisited_points') @@ contours_of
                            ELSE contours_of
    /\ calls' = <<>>
    /\ UNCHANGED <<call_args, entry, points, polygon_length, pc, stroke, visit_count>>

\* Variant: the fallback taken whenever no chunk is pending, without looking
\* at what the extraction gives.
StartFallbackUnasked ==
    /\ pc = "ready"
    /\ unvisited_points # {}
    /\ \/ unvisited_contours.is_none
       \/ unvisited_contours.items = <<>>
    /\ unvisited_contours' = [is_none |-> TRUE, items |-> <<>>]
    /\ \E seed \in unvisited_points :
          /\ stroke' = <<seed>>
          /\ visit_count' = CounterUpdate(NoCount, <<seed>>)
    /\ pc' = "path"
    /\ calls' = <<>>
    /\ UNCHANGED <<contours_of, call_args, entry, points, polygon_length, unvisited_points, emitted>>

\* Variant: self._unvisited_contours = None left out, the contours tried
\* again at the next pull.
StartFallbackKeepContours ==
    /\ pc = "ready"
    /\ unvisited_points # {}
    /\ ~unvisited_contours.is_none
    /\ unvisited_contours.items = <<>>
    /\ polygon_length > 0
    /\ ExactChunks(Contours(unvisited_points), polygon_length) = <<>>
    /\ \E seed \in unvisited_points :
          /\ stroke' = <<seed>>
          /\ visit_count' = CounterUpdate(NoCount, <<seed>>)
    /\ pc' = "path"
    /\ calls' = <<>>
    /\ UNCHANGED <<contours_of, call_args, entry, points, polygon_length, unvisited_points,
                   unvisited_contours, emitted>>

\* _next_contour returns None (no exact chunk, or contours given up before):
\* _next_random_polygon starts from some point of unvisited_points.
StartFallback ==
    /\ pc = "ready"
    /\ unvisited_points # {}
    /\ \/ unvisited_contours.is_none
       \/ /\ ~unvisited_contours.is_none
          /\ unvisited_contours.items = <<>>
          /\ polygon_length > 0
          /\ ExactChunks(Contours(unvisited_points), polygon_length) = <<>>
    /\ unvisited_contours' = [is_none |-> TRUE, items |-> <<>>]
    /\ \E seed \in unvisited_points :
          /\ stroke' = <<seed>>
          /\ visit_count' = CounterUpdate(NoCount, <<seed>>)
    /\ pc' = "path"
    /\ calls' = <<>>
    /\ UNCHANGED <<contours_of, call_args, entry, points, polygon_length, unvisited_points, emitted>>

\* head.points.reverse(); points, tail_points = head.points, points;
\* points.extend(islice(tail_points, 1, None))
HeadJoin(head_path, tail_points) == Reverse(head_path) \o Rest(tail_points)

\* The first while loop of _next_random_polygon after find_path gave tail
\* from last_point and (when tail is none) head from first_point: the stroke
\* grows at the tail, else at the head (the path reversed and put in front),
\* else the loop breaks; an exception leaves the generator.
PathOutcome(max_length, tail, head) ==
    LET tail_call == CallRecord(Last(stroke), max_length, tail)
        head_call == CallRecord(stroke[1], max_length, head)
    IN IF tail.kind \in {"ValueError", "AssertionError"}
       THEN /\ pc' = "raised"
            /\ calls' = <<tail_call>>
            /\ UNCHANGED <<stroke, visit_count>>
       ELSE IF tail.kind = "path"
       THEN /\ visit_count' = CounterUpdate(visit_count, Rest(tail.path))
            /\ stroke' = stroke \o Rest(tail.path)
            /\ calls' = <<tail_call>>
            /\ UNCHANGED pc
       ELSE IF head.kind \in {"ValueError", "AssertionError"}
       THEN /\ pc' = "raised"
            /\ calls' = <<tail_call, head_call>>
            /\ UNCHANGED <<stroke, visit_count>>
       ELSE IF head.kind = "path"
       THEN /\ visit_count' = CounterUpdate(visit_count, Rest(head.path))
            /\ stroke' = HeadJoin(head.path, stroke)
            /\ calls' = <<tail_call, head_call>>
            /\ UNCHANGED pc
       ELSE /\ pc' = "greedy"
            /\ calls' = <<tail_call, head_call>>
            /\ UNCHANGED <<stroke, visit_count>>

\* One pass of the first while loop of _next_random_polygon.
PathStep ==
    /\ pc = "path"
    /\ IF ~(Len(stroke) < polygon_length)
       THEN /\ pc' = "greedy"
            /\ calls' = <<>>
            /\ UNCHANGED <<stroke, visit_count>>
       ELSE
         LET max_length == polygon_length - Len(stroke)
         IN \E tail \in {FindPath(Last(stroke), points, max_length, IsUnvisited)} :
            \E head \in {IF tail.kind = "none"
                         THEN FindPath(stroke[1], points, max_length, IsUnvisited)
                         ELSE tail} :
               PathOutcome(max_length, tail, head)
    /\ UNCHANGED <<contours_of, call_args, entry, points, polygon_length, unvisited_points,
                   unvisited_contours, emitted>>

\* Variant: the tail neighbour looked for among all pixels of the grid
\* instead of self._points.
TailNeighborOfGrid == FindLeastVisitedNeighbor(Last(stroke), visit_count, Grid)

\* The neighbour the second while loop would add, at the tail or at the head.
TailNeighbor == FindLeastVisitedNeighbor(Last(stroke), visit_count, points)
HeadNeighbor == FindLeastVisitedNeighbor(stroke[1], visit_count, points)

\* One pass of the second while loop that extends the stroke by one point.
GreedyStep ==
    /\ pc = "greedy"
    /\ Len(stroke) < polygon_length
    /\ IF TailNeighbor # NoPoint
       THEN /\ stroke' = Append(stroke, TailNeighbor)
            /\ visit_count' = CounterUpdate(visit_count, <<TailNeighbor>>)
       ELSE /\ HeadNeighbor # NoPoint
            /\ stroke' = <<HeadNeighbor>> \o stroke
            /\ visit_count' = CounterUpdate(visit_count, <<HeadNeighbor>>)
    /\ calls' = <<>>
    /\ UNCHANGED <<contours_of, call_args, entry, points, polygon_length, unvisited_points,
                   unvisited_contours, pc, emitted>>

\* Variant: the padding left out.
NoPadding(last_point, pad) == <<>>

\* islice(repeat(last_point), pad)
Padding(last_point, pad) == [i \in 1..pad |-> last_point]

\* Variant: the second while loop left at any pass, the stroke padded
\* although an end still has a neighbour.
PadEarly ==
    /\ pc = "greedy"
    /\ Return(stroke \o Padding(Last(stroke), polygon_length - Len(stroke)),
              "fallback")
    /\ pc' = "ready"
    /\ stroke' = <<>>
    /\ visit_count' = NoCount
    /\ calls' = <<>>
    /\ UNCHANGED <<contours_of, call_args, entry, points, polygon_length, unvisited_contours>>

\* The second while loop ends (full length, or no neighbour at either end):
\* the stroke is padded with its last point and returned by __next__.
PadAndReturn ==
    /\ pc = "greedy"
    /\ \/ ~(Len(stroke) < polygon_length)
       \/ TailNeighbor = NoPoint /\ HeadNeighbor = NoPoint
    /\ Return(stroke \o Padding(Last(stroke), polygon_length - Len(stroke)),
              "fallback")
    /\ pc' = "ready"
    /\ stroke' = <<>>
    /\ visit_count' = NoCount
    /\ calls' = <<>>
    /\ UNCHANGED <<contours_of, call_args, entry, points, polygon_length, unvisited_contours>>

Next ==
    \/ FromPixels
    \/ Stop
    \/ EmitPending
    \/ ExtractRaise
    \/ ExtractAndEmit
    \/ StartFallback
    \/ PathStep
    \/ GreedyStep
    \/ PadAndReturn

Spec == Init /\ [][Next]_vars

\* The caller keeps pulling (list(...) in Image.__init__, the for loop of
\* make_swipe_queue) and every step of the single thread is taken.
FairSpec == Spec /\ WF_vars(Next)

\* ------------------------------------------------- find_path called alone
\* find_path(start, points, max_length, predicate) on arguments of its own:
\* any start of the grid, any small set, any length, any predicate over the
\* set and the start.
CallInit ==
    /\ entry = "find_path"
    /\ points \in {S \in SUBSET Grid : Cardinality(S) <= MaxPathPoints}
    /\ \E start \in Grid :
          call_args \in [start : {start}, max_length : Lengths,
                         pred : SUBSET (points \cup {start})]
    /\ polygon_length = 0
    /\ unvisited_points = {}
    /\ unvisited_contours = [is_none |-> FALSE, items |-> <<>>]
    /\ pc = "call"
    /\ stroke = <<>>
    /\ visit_count = NoCount
    /\ emitted = <<>>
    /\ calls = <<>>
    /\ contours_of = NextContours({})

CallFindPath ==
    /\ pc = "call"
    /\ entry = "find_path"
    /\ pc' = "returned"
    /\ calls' = << CallRecord(call_args.start, call_args.max_length,
                              FindPath(call_args.start, points,
                                       call_args.max_length, call_args.pred)) >>
    /\ UNCHANGED <<contours_of, call_args, entry, points, polygon_length, unvisited_points,
                   unvisited_contours, stroke, visit_count, emitted>>

\* -------------------------------------------- find_contours called alone
\* find_contours(points) on any small set of points with integer
\* coordinates, negative ones among them.
SignedGrid == ((0 - MaxNeg)..MaxX) \X ((0 - MaxNeg)..MaxY)

ContourInit ==
    /\ entry = "find_contours"
    /\ points \in {S \in SUBSET SignedGrid : Cardinality(S) <= MaxContourPoints}
    /\ polygon_length = 0
    /\ unvisited_points = {}
    /\ unvisited_contours = [is_none |-> FALSE, items |-> <<>>]
    /\ pc = "call"
    /\ stroke = <<>>
    /\ visit_count = NoCount
    /\ emitted = <<>>
    /\ call_args = NoArgs
    /\ calls = <<>>
    /\ contours_of = NextContours({})

\* The call consumed to its end: the loops, or the exception.
CallFindContours ==
    /\ pc = "call"
    /\ entry = "find_contours"
    /\ \E r \in {FindContoursOutcome(points)} :
          /\ pc' = IF r.kind = "loops" THEN "returned" ELSE "raised"
          /\ calls' = <<r>>
    /\ UNCHANGED <<contours_of, call_args, entry, points, polygon_length, unvisited_points,
                   unvisited_contours, stroke, visit_count, emitted>>

\* The generator, and find_contours called alone.
ContourInitAll == Init \/ ContourInit
ContourNext == Next \/ CallFindContours
ContourSpec == ContourInitAll /\ [][ContourNext]_vars

\* The generator, and find_path called alone.
PathInit == Init \/ CallInit
PathNext == Next \/ CallFindPath
PathSpec == PathInit /\ [][PathNext]_vars

\* --------------------------------------------- find_path called twice
\* After a call find_path(start, points, m, predicate) with m >= 1, a second
\* call with the same start, set and predicate and some max_length >= m.
CallFindPathAgain ==
    /\ pc = "returned"
    /\ entry = "find_path"
    /\ call_args.max_length >= 1
    /\ \E max_length \in call_args.max_length..MaxLen :
          calls' = Append(calls,
                          CallRecord(call_args.start, max_length,
                                     FindPath(call_args.start, points,
                                              max_length, call_args.pred)))
    /\ pc' = "compared"
    /\ UNCHANGED <<contours_of, call_args, entry, points, polygon_length, unvisited_points,
                   unvisited_contours, stroke, visit_count, emitted>>

BudgetNext == CallFindPath \/ CallFindPathAgain
BudgetSpec == CallInit /\ [][BudgetNext]_vars

\* ------------------------------------------------ the generator, wider inputs
\* Init with one more point and one more length than InputSets and Lengths.
WideInit ==
    /\ entry \in {"from_pixels", "points_to_polygons"}
    /\ points \in {S \in SUBSET Grid : Cardinality(S) <= MaxWidePoints}
    /\ polygon_length \in (-1)..MaxWideLen
    /\ unvisited_points = points
    /\ unvisited_contours = [is_none |-> FALSE, items |-> <<>>]
    /\ pc = IF entry = "from_pixels" THEN "entry" ELSE "ready"
    /\ stroke = <<>>
    /\ visit_count = NoCount
    /\ emitted = <<>>
    /\ call_args = NoArgs
    /\ calls = <<>>
    /\ contours_of = NextContours(points)

WideSpec == WideInit /\ [][Next]_vars

\* ------------------------------------------------------------- properties
Abs(n) == IF n < 0 THEN 0 - n ELSE n
Chebyshev(p, q) ==
    IF Abs(p[1] - q[1]) >= Abs(p[2] - q[2])
    THEN Abs(p[1] - q[1]) ELSE Abs(p[2] - q[2])

\* The points of all strokes returned so far.
EmittedPoints == UNION {Range(emitted[i].points) : i \in 1..Len(emitted)}
HasSource(source) == \E i \in 1..Len(emitted) : emitted[i].source = source
Generating == entry = "points_to_polygons"

C2_LengthContract ==
    Cardinality(points) >= 2 =>
        \A i \in 1..Len(emitted) : Len(emitted[i].points) = polygon_length

\* A fallback stroke that was padded, emitted after a contour chunk.
C2_Witness ==
    /\ Cardinality(points) >= 2
    /\ \E i, j \in 1..Len(emitted) :
          /\ emitted[i].source = "contour"
          /\ emitted[j].source = "fallback"
          /\ Len(emitted[j].points) >= 2
          /\ emitted[j].points[Len(emitted[j].points)]
                 = emitted[j].points[Len(emitted[j].points) - 1]

\* Consecutive points of a polygon are equal or 8-adjacent.
Connected(polygon) ==
    \A i \in 1..(Len(polygon) - 1) : Chebyshev(polygon[i], polygon[i + 1]) <= 1

\* C3 Adjacency: every consecutive pair of an emitted stroke, and of the
\* stroke under construction after each path or greedy extension, is equal
\* or at Chebyshev distance 1.
C3_Adjacency ==
    /\ \A i \in 1..Len(emitted) : Connected(emitted[i].points)
    /\ Connected(stroke)

\* The stroke under construction just after a head path was put in front.
C3_Witness ==
    /\ pc = "path"
    /\ Len(calls) = 2
    /\ calls[2].kind = "path"
    /\ Len(stroke) >= 3

\* C4: no step adds a point to unvisited_points, and a pull ends the
\* sequence exactly when unvisited_points is empty at that pull.
C4_UnvisitedShrinks ==
    [][/\ unvisited_points' \subseteq unvisited_points
       /\ pc = "ready" => (pc' = "done" <=> unvisited_points = {})]_vars

\* The sequence ended after three or more strokes.
C4_Witness ==
    /\ pc = "done"
    /\ Generating
    /\ Len(emitted) >= 3
    /\ unvisited_points = {}

C6_StrokeCountBound ==
    [][Generating' /\ Len(emitted') > Len(emitted) =>
           /\ unvisited_points' # unvisited_points
           /\ Len(emitted') <= Cardinality(points)]_vars

\* The single point of a one-point set.
ThePoint == CHOOSE p \in points : TRUE

C8_SingletonLength ==
    polygon_length = 1 /\ Generating =>
        /\ \A i \in 1..Len(emitted) : Len(emitted[i].points) = 1
        /\ \A i, j \in 1..Len(emitted) :
               i # j => emitted[i].points # emitted[j].points
        /\ pc = "done" => Len(emitted) = Cardinality(points)

\* C9 Invalid configuration: with polygon_length <= 0 the generator never
\* ends normally and never builds a stroke; it raises with no stroke emitted
\* and with unvisited_points and the pending chunks as they were.
C9_InvalidLengthFails ==
    polygon_length <= 0 /\ Generating =>
        /\ pc \in {"ready", "raised"}
        /\ emitted = <<>>
        /\ unvisited_points = points
        /\ unvisited_contours = [is_none |-> FALSE, items |-> <<>>]

\* C10: a find_path call raises exactly when max_length <= 0 (a ValueError,
\* never the assertion), every path taken from the queue is shorter than
\* max_length, and the calls of the generator pass max_length >= 1.
C10_FindPathRaises ==
    \A i \in 1..Len(calls) :
        /\ calls[i].kind = "ValueError" <=> calls[i].max_length <= 0
        /\ calls[i].kind # "AssertionError"
        /\ \A j \in 1..Len(calls[i].popped) :
               Len(calls[i].popped[j]) < calls[i].max_length
        /\ entry # "find_path" => calls[i].max_length >= 1

\* A direct call that found nothing after taking from the queue a path that
\* had used up its budget.
C10_Witness ==
    /\ entry = "find_path"
    /\ pc = "returned"
    /\ calls[1].kind = "none"
    /\ calls[1].max_length >= 3
    /\ \E j \in 1..Len(calls[1].popped) :
           Len(calls[1].popped[j]) = calls[1].max_length - 1

\* ------------------------------------------------ reference search (C11)
\* The points in which a walk of exactly k points from start, every further
\* point 8-adjacent to the one before and in pts, can end.
RECURSIVE Level(_, _, _)
Level(start, pts, k) ==
    IF k = 1 THEN {start}
    ELSE {q \in pts : \E p \in Level(start, pts, k - 1) : Chebyshev(p, q) = 1}

\* The point counts, at most max_length, of the paths from start that end
\* in a point satisfying the predicate.
QualifyingCounts(start, pts, max_length, pred) ==
    {k \in 1..max_length : Level(start, pts, k) \cap pred # {}}

\* C11: a find_path call with max_length >= 1 returns none exactly when no
\* path of at most max_length points leads from start over 8-adjacent points
\* of the set to a point satisfying the predicate; a returned path begins at
\* start, has consecutive points 8-adjacent, every later point in the set,
\* ends in a point satisfying the predicate, has at most max_length points
\* and the least point count of all qualifying paths.
C11_ReferenceSearch ==
    entry = "find_path" /\ pc = "returned" /\ call_args.max_length >= 1 =>
        LET c == calls[1]
            counts == QualifyingCounts(call_args.start, points,
                                       call_args.max_length, call_args.pred)
        IN /\ c.kind = "none" <=> counts = {}
           /\ c.kind = "path" =>
                 /\ c.path[1] = call_args.start
                 /\ \A i \in 1..(Len(c.path) - 1) :
                        Chebyshev(c.path[i], c.path[i + 1]) = 1
                 /\ \A i \in 2..Len(c.path) : c.path[i] \in points
                 /\ Last(c.path) \in call_args.pred
                 /\ Len(c.path) <= call_args.max_length
                 /\ Len(c.path) = Min(counts)

\* ------------------------------------------------------- contour chunks
\* A loop that passes every point of the set exactly once (three points or
\* more): the set is a closed ring of contiguous pixels traced by that loop.
IsRingLoop(loop, unique_points) ==
    /\ Len(loop) >= 3
    /\ Len(loop) = Cardinality(unique_points)
    /\ Range(loop) = unique_points

\* The input is a ring whose loop length is a multiple of polygon_length.
RingInput ==
    /\ polygon_length >= 1
    /\ Cardinality(points) >= 3
    /\ \E i \in 1..Len(Contours(points)) :
          /\ IsRingLoop(Contours(points)[i], points)
          /\ Len(Contours(points)[i]) % polygon_length = 0

\* C12 Contour preference: on a ring input whose loop length is a multiple of
\* polygon_length every emitted stroke is a chunk of the split of a loop of
\* the input, and _next_random_polygon is never entered.
C12_ContourPreference ==
    Generating /\ RingInput =>
        /\ pc \notin {"path", "greedy"}
        /\ ~unvisited_contours.is_none
        /\ \A i \in 1..Len(emitted) :
              /\ emitted[i].source = "contour"
              /\ \E k \in 1..Len(ExactChunks(Contours(points), polygon_length)) :
                    ExactChunks(Contours(points), polygon_length)[k]
                        = emitted[i].points

\* A pass over a ring that ended after two or more chunks.
C12_Witness ==
    /\ Generating
    /\ RingInput
    /\ pc = "done"
    /\ Len(emitted) >= 2

\* C13 Chunk emission order: the exact chunks of one extraction are emitted
\* in the order in which they were accepted from the loops; stated for the
\* first extraction, whose chunks are those of the loops of the input: the
\* k-th stroke emitted from it is the k-th chunk accepted.
C13_ChunkOrderFifo ==
    Generating /\ polygon_length >= 1 /\ DOMAIN contours_of = {points} =>
        \A k \in 1..Len(emitted) :
            emitted[k].source = "contour" =>
                /\ k <= Len(ExactChunks(Contours(points), polygon_length))
                /\ emitted[k].points
                       = ExactChunks(Contours(points), polygon_length)[k]

\* A point none of whose eight neighbours is in the input set.
Isolated(p) == \A i \in 1..8 : Neighbors(p)[i] \notin points

SeedPick == pc = "ready" /\ pc' = "path"

\* C15 Determinism: from a state of the generator no two steps differ unless
\* both pick a seed and pick different ones; so with the seed pick fixed by a
\* rule the next state, and with it the whole stroke sequence, is a function
\* of the input set and polygon_length.
C15_Determinism ==
    [][\A taken \in {vars'} :
          ~ENABLED (/\ Next
                    /\ vars' # taken
                    /\ ~(SeedPick /\ taken[6] = "path"
                         /\ stroke'[1] # taken[7][1]))]_vars

\* A seed just picked where another point could have been picked.
C15_Witness ==
    /\ pc = "path"
    /\ calls = <<>>
    /\ Len(stroke) = 1
    /\ unvisited_points \ {stroke[1]} # {}
    /\ HasSource("contour")

\* C16: find_contours on a non-empty set of points with integer coordinates
\* returns without raising, every loop holds only points of the set, at
\* least one loop is non-empty, and the mask cell written for a point is the
\* cell with the point's own coordinates.
C16_ContoursWithinSet ==
    entry = "find_contours" /\ pc \in {"returned", "raised"} /\ points # {} =>
        /\ pc = "returned"
        /\ \A i \in 1..Len(calls[1].loops) :
               Range(calls[1].loops[i]) \subseteq points
        /\ \E i \in 1..Len(calls[1].loops) : calls[1].loops[i] # <<>>
        /\ \A p \in points :
               MaskCell(p, MaskWidth(points), MaskHeight(points)) = p

\* ---------------------------------------------------------------------------
\* C17

\* A pull: __next__ entered with points still unvisited.
Pull == pc = "ready" /\ unvisited_points # {}

\* The stroke a pull returned at once (a contour chunk), if it returned one.
Returned(polygon) ==
    emitted' = Append(emitted, [points |-> polygon, source |-> "contour"])

\* C17: on every pull with unvisited points left, (a) when chunks are
\* pending the stroke returned is one of them; (b) a stroke returned when
\* none is pending is an exact chunk of the contours of the current
\* unvisited set; (c) a fallback stroke is begun only when no chunk is
\* pending and the contours of the current unvisited set give no chunk of
\* exactly polygon_length points.
C17_TransitionRule ==
    [][Pull =>
         /\ (~unvisited_contours.is_none /\ unvisited_contours.items # <<>>)
               => \E k \in 1..Len(unvisited_contours.items) :
                     Returned(unvisited_contours.items[k])
         /\ (emitted' # emitted /\ unvisited_contours.items = <<>>)
               => /\ polygon_length > 0
                  /\ \E chunks \in {ExactChunks(FindContours(unvisited_points),
                                                polygon_length)} :
                        \E k \in 1..Len(chunks) : Returned(chunks[k])
         /\ pc' = "path"
               => /\ unvisited_contours.items = <<>>
                  /\ polygon_length > 0
                  /\ ExactChunks(FindContours(unvisited_points),
                                 polygon_length) = <<>>]_vars

\* Two chunks of the input's contours were returned, the second one from the
\* pending chunks; the contours were taken again from what was left, where
\* the input itself still has an exact chunk and the rest has none, and a
\* fallback stroke followed.
C17_Witness ==
    /\ Generating
    /\ polygon_length > 0
    /\ Len(emitted) >= 3
    /\ emitted[1].source = "contour"
    /\ emitted[2].source = "contour"
    /\ emitted[Len(emitted)].source = "fallback"
    /\ unvisited_contours.is_none
    /\ ExactChunks(Contours(points), polygon_length) # <<>>
    /\ \E S \in DOMAIN contours_of :
          /\ S # points
          /\ S # {}
          /\ ExactChunks(contours_of[S], polygon_length) = <<>>

\* ---------------------------------------------------------------------------
\* C18

\* chunk is a run of consecutive points of loop.
IsRun(chunk, loop) ==
    \E j \in 0..(Len(loop) - Len(chunk)) :
       chunk = SubSeq(loop, j + 1, j + Len(chunk))

\* chunk has exactly polygon_length points and is a run of one loop of one
\* of the extractions made so far.
AcceptedChunk(chunk) ==
    /\ Len(chunk) = polygon_length
    /\ \E S \in DOMAIN contours_of :
          \E i \in 1..Len(contours_of[S]) : IsRun(chunk, contours_of[S][i])

\* The points a loop leaves over after its slices of polygon_length points.
Remainder(loop) ==
    {loop[i] : i \in ((Len(loop) \div polygon_length) * polygon_length + 1)..Len(loop)}

\* C18: every pending chunk and every stroke returned from the contours has
\* exactly polygon_length points and is a run of consecutive points of one
\* loop (so a shorter remainder is never a stroke); unvisited_points changes
\* only when a stroke is returned, and then loses only points of that
\* stroke, so the points of a discarded remainder stay unvisited until a
\* returned stroke contains them.
C18_ChunkAcceptance ==
    [][/\ \A k \in 1..Len(unvisited_contours'.items) :
             AcceptedChunk(unvisited_contours.items[k])'
       /\ \A i \in 1..Len(emitted') :
             emitted'[i].source = "contour" => AcceptedChunk(emitted[i].points)'
       /\ unvisited_points' \subseteq unvisited_points
       /\ unvisited_points' # unvisited_points
             => /\ Len(emitted') = Len(emitted) + 1
                /\ (unvisited_points \ unvisited_points')
                      \subseteq Range(emitted'[Len(emitted')].points)
       /\ (Pull /\ polygon_length > 0 /\ ~unvisited_contours.is_none
           /\ unvisited_contours.items = <<>>)
             => \A i \in 1..Len(Contours(unvisited_points)) :
                   \A p \in Remainder(Contours(unvisited_points)[i]) :
                      p \in unvisited_points
                         => \/ p \in unvisited_points'
                            \/ /\ emitted' # emitted
                               /\ p \in Range(emitted'[Len(emitted')].points)]_vars

\* Every exact chunk of the input's contours has been returned, and a point
\* of a loop's discarded remainder is still unvisited.
C18_Witness ==
    /\ Generating
    /\ polygon_length > 0
    /\ pc = "ready"
    /\ emitted # <<>>
    /\ \A i \in 1..Len(emitted) : emitted[i].source = "contour"
    /\ Len(emitted) = Len(ExactChunks(Contours(points), polygon_length))
    /\ \E i \in 1..Len(Contours(points)) :
          \E p \in Remainder(Contours(points)[i]) : p \in unvisited_points

\* ---------------------------------------------------------------------------
\* C19

\* No point occurs twice in path.
IsSimple(path) == \A i, j \in 1..Len(path) : path[i] = path[j] => i = j

\* C19: in every find_path search each path taken from the queue and the
\* path returned contain no point twice, the start point included.
C19_SimplePaths ==
    \A c \in 1..Len(calls) :
       /\ \A k \in 1..Len(calls[c].popped) : IsSimple(calls[c].popped[k])
       /\ calls[c].kind = "path" => IsSimple(calls[c].path)

\* ---------------------------------------------------------------------------
\* C20

\* The place of q in the enumeration of p.neighbors: left, right, up, down,
\* then the diagonals (-1,-1), (-1,+1), (+1,-1), (+1,+1).
DirRank(p, q) ==
    LET dx == q[1] - p[1]
        dy == q[2] - p[2]
    IN CASE dx = -1 /\ dy = 0 -> 1
         [] dx = 1 /\ dy = 0 -> 2
         [] dx = 0 /\ dy = -1 -> 3
         [] dx = 0 /\ dy = 1 -> 4
         [] dx = -1 /\ dy = -1 -> 5
         [] dx = -1 /\ dy = 1 -> 6
         [] dx = 1 /\ dy = -1 -> 7
         [] dx = 1 /\ dy = 1 -> 8

\* The walks of n points from start through pts, each point a neighbour of
\* the one before, that end at a point satisfying pred.
QualifyingWalks(start, pts, n, pred) ==
    {w \in [1..n -> pts \cup {start}] :
        /\ w[1] = start
        /\ \A i \in 2..n : w[i] \in pts /\ Chebyshev(w[i - 1], w[i]) = 1
        /\ w[n] \in pred}

\* w comes before v (same length) when the first step in which they differ
\* goes to an earlier neighbour in w.
FoundBefore(w, v) ==
    \E i \in 2..Len(w) :
       /\ \A j \in 1..(i - 1) : w[j] = v[j]
       /\ DirRank(w[i - 1], w[i]) < DirRank(v[i - 1], v[i])

\* C20: a path find_path returns for max_length >= 2 ends at a
\* predicate-satisfying point of minimal depth, and among all walks of that
\* length to such points it is the one found first when paths are expanded
\* first in, first out and neighbours are tried in the order of
\* Point.neighbors, orthogonal before diagonal; the result is fixed by
\* (start, points, max_length, predicate).
C20_TieBreaking ==
    (entry = "find_path" /\ pc = "returned" /\ call_args.max_length >= 2
     /\ calls[1].kind = "path")
       => LET path == calls[1].path
              n == Len(path)
          IN /\ n >= 2
             /\ n <= call_args.max_length
             /\ path \in QualifyingWalks(call_args.start, points, n, call_args.pred)
             /\ \A m \in 2..(n - 1) :
                   QualifyingWalks(call_args.start, points, m, call_args.pred) = {}
             /\ \A w \in QualifyingWalks(call_args.start, points, n, call_args.pred) :
                   w = path \/ FoundBefore(path, w)

\* Two walks of three or more points, no point twice in either, end at the
\* minimal depth at points satisfying the predicate and part at the first
\* step, one by an orthogonal and one by a diagonal neighbour of start: the
\* path through the orthogonal neighbour, queued first, is returned.
C20_Witness ==
    /\ entry = "find_path"
    /\ pc = "returned"
    /\ call_args.max_length >= 2
    /\ calls[1].kind = "path"
    /\ LET path == calls[1].path
           n == Len(path)
       IN /\ n >= 3
          /\ IsSimple(path)
          /\ DirRank(path[1], path[2]) <= 4
          /\ \E w \in QualifyingWalks(call_args.start, points, n, call_args.pred) :
                /\ IsSimple(w)
                /\ w[2] # path[2]
                /\ DirRank(w[1], w[2]) >= 5

\* ---------------------------------------------------------------------------
\* C21

\* A pass of the first loop of _next_random_polygon that made the stroke
\* longer, at the tail (one find_path call) or at the head (two).
PathExtension == pc = "path" /\ stroke' # stroke

GreedyEntry == pc = "path" /\ pc' = "greedy" /\ Len(stroke) < polygon_length

\* Some point that is unvisited and not in the stroke is reached from end
\* through points of the input by a walk that adds at most r points.
ReachableWithin(end, r) ==
    \E n \in 2..(r + 1) : QualifyingWalks(end, points, n, IsUnvisited) # {}

\* C22: the fallback builder goes over to the greedy extension only when no
\* point that is unvisited and unused in the stroke can be reached through
\* points of the input from the tail or the head by a path adding at most
\* r = polygon_length - len(points) points to the stroke.
C22_GreedyEntry ==
    [][GreedyEntry =>
         /\ ~ReachableWithin(Last(stroke), polygon_length - Len(stroke))
         /\ ~ReachableWithin(stroke[1], polygon_length - Len(stroke))]_vars

\* ---------------------------------------------------------------------------
\* C23

\* The neighbours of p in the input set.
InSetNeighbors(p) == {q \in points : Chebyshev(p, q) = 1}

\* The member of candidates that comes first in the enumeration of
\* p.neighbors.
FirstInOrder(p, candidates) ==
    CHOOSE q \in candidates :
       \A o \in candidates : DirRank(p, q) <= DirRank(p, o)

\* The neighbour the greedy step is to take at the end point p: the first
\* one that is unvisited and not in the stroke; else the first of those the
\* stroke holds least often; none without a neighbour in the input set.
GreedyChoice(p) ==
    LET fresh == (InSetNeighbors(p) \cap unvisited_points) \ Range(stroke)
        least == {q \in InSetNeighbors(p) :
                     \A o \in InSetNeighbors(p) :
                        Occurrences(stroke, q) <= Occurrences(stroke, o)}
    IN IF fresh # {} THEN FirstInOrder(p, fresh)
       ELSE IF InSetNeighbors(p) = {} THEN NoPoint
       ELSE FirstInOrder(p, least)

\* C23: in the greedy loop the stroke grows at the tail by the first
\* unvisited and unused neighbour of the tail in Point.neighbors order, else
\* by the tail's least visited neighbour in the input set (the earliest among
\* equals); at the head, by the same rule, only when the tail has no
\* neighbour in the input set; and no neighbour is found exactly when the
\* end point has none in the input set.
C23_GreedyChoice ==
    [][(pc = "greedy" /\ Len(stroke) < polygon_length) =>
         /\ TailNeighbor = GreedyChoice(Last(stroke))
         /\ HeadNeighbor = GreedyChoice(stroke[1])
         /\ TailNeighbor = NoPoint <=> InSetNeighbors(Last(stroke)) = {}
         /\ HeadNeighbor = NoPoint <=> InSetNeighbors(stroke[1]) = {}
         /\ IF GreedyChoice(Last(stroke)) # NoPoint
            THEN stroke' = Append(stroke, GreedyChoice(Last(stroke)))
            ELSE IF GreedyChoice(stroke[1]) # NoPoint
            THEN stroke' = <<GreedyChoice(stroke[1])>> \o stroke
            ELSE pc' = "ready" /\ stroke' = <<>>]_vars

\* The greedy step took a neighbour the stroke held already although a later
\* neighbour of the tail was held equally often: no unvisited, unused
\* neighbour was there and the earliest of the least visited was taken.
C23_Witness ==
    /\ Generating
    /\ pc = "greedy"
    /\ calls = <<>>
    /\ Len(stroke) >= 3
    /\ LET before == SubSeq(stroke, 1, Len(stroke) - 1)
           p == Last(before)
           q == Last(stroke)
       IN /\ Occurrences(before, q) >= 1
          /\ \E o \in InSetNeighbors(p) :
                /\ o # q
                /\ Occurrences(before, o) = Occurrences(before, q)
                /\ DirRank(p, q) < DirRank(p, o)

\* ---------------------------------------------------------------------------
\* C24

\* _next_random_polygon returns: the step from the second loop to __next__.
FallbackReturn == pc = "greedy" /\ pc' = "ready"

\* Some point of polygon is followed by itself.
HasRepeat(polygon) == \E i \in 1..(Len(polygon) - 1) : polygon[i] = polygon[i + 1]

\* C24: a fallback stroke is padded only when neither its tail nor its head
\* has a neighbour in the input set; the padding is copies of its last point
\* up to exactly polygon_length points; the points that leave
\* unvisited_points are those of the stroke before padding; and a fallback
\* stroke holds two equal consecutive points only if it is one isolated
\* point repeated.
C24_PaddingRule ==
    [][FallbackReturn =>
         LET polygon == emitted'[Len(emitted')].points
             pad == polygon_length - Len(stroke)
         IN /\ Len(emitted') = Len(emitted) + 1
            /\ pad >= 0
            /\ pad > 0 => /\ InSetNeighbors(Last(stroke)) = {}
                          /\ InSetNeighbors(stroke[1]) = {}
            /\ Len(polygon) = polygon_length
            /\ SubSeq(polygon, 1, Len(stroke)) = stroke
            /\ \A i \in (Len(stroke) + 1)..polygon_length :
                  polygon[i] = Last(stroke)
            /\ unvisited_points' = unvisited_points \ Range(stroke)
            /\ HasRepeat(polygon)
                  => /\ \A i \in 1..Len(polygon) : polygon[i] = polygon[1]
                     /\ InSetNeighbors(polygon[1]) = {}]_vars

\* A padded fallback stroke was returned while another point is still
\* unvisited.
C24_Witness ==
    /\ Generating
    /\ pc = "ready"
    /\ emitted # <<>>
    /\ unvisited_points # {}
    /\ LET polygon == emitted[Len(emitted)].points
       IN /\ emitted[Len(emitted)].source = "fallback"
          /\ Len(polygon) >= 2
          /\ HasRepeat(polygon)

\* ---------------------------------------------------------------------------
\* C25

\* C25: the input set is never changed, and after every step of the
\* generator, so after every pull whether or not another follows,
\* unvisited_points is the input set without the points of the strokes
\* returned so far, a subset of the input set.
C25_CoverageInvariant ==
    [][/\ points' = points
       /\ Generating' => /\ unvisited_points' = points' \ EmittedPoints'
                         /\ unvisited_points' \subseteq points']_vars

\* Between two pulls in the middle of a pass: two strokes returned, some
\* points covered and some still unvisited.
C25_Witness ==
    /\ Generating
    /\ pc = "ready"
    /\ Len(emitted) >= 2
    /\ unvisited_points # {}
    /\ unvisited_points # points
    /\ unvisited_points = points \ EmittedPoints

\* ---------------------------------------------------------------------------
\* C26

\* The source of the stroke returned by this step.
ReturnedFrom(source) ==
    /\ Len(emitted') = Len(emitted) + 1
    /\ emitted'[Len(emitted')].source = source

\* C26: a fallback stroke is begun only with the contours given up
\* (_unvisited_contours None) from then on; once they are given up they stay
\* so, no extraction is made any more and every stroke returned is a
\* fallback stroke; until then, each pull that finds no chunk pending takes
\* the contours of the unvisited set as it is at that pull.
C26_FallbackAbsorbing ==
    [][/\ (pc = "ready" /\ pc' = "path") => unvisited_contours'.is_none
       /\ unvisited_contours.is_none
             => /\ unvisited_contours'.is_none
                /\ contours_of' = contours_of
                /\ emitted' # emitted => ReturnedFrom("fallback")
       /\ (Pull /\ ~unvisited_contours.is_none /\ polygon_length > 0
           /\ unvisited_contours.items = <<>>)
             => /\ unvisited_points \in DOMAIN contours_of
                /\ Contours(unvisited_points) = FindContours(unvisited_points)
                /\ IF ExactChunks(FindContours(unvisited_points),
                                  polygon_length) = <<>>
                   THEN pc' = "path" /\ emitted' = emitted
                   ELSE ReturnedFrom("contour")]_vars

\* The contours were given up at the first pull and a second fallback
\* stroke was returned after the first.
C26_Witness ==
    /\ Generating
    /\ pc = "ready"
    /\ unvisited_contours.is_none
    /\ Len(emitted) >= 2
    /\ \A i \in 1..Len(emitted) : emitted[i].source = "fallback"
    /\ DOMAIN contours_of = {points}

\* ---------------------------------------------------------------------------
\* C27

\* C27: when find_path returns a path for max_length = m >= 1, it returns
\* the same path for every max_length m' >= m with the same start, set and
\* predicate.
C27_BudgetMonotone ==
    (entry = "find_path" /\ pc = "compared" /\ calls[1].kind = "path")
       => /\ calls[2].kind = "path"
          /\ calls[2].path = calls[1].path

====
